---- MODULE Spec2Model ----
(***************************************************************************)
(* Model of lifers-raylib: the repeating, pausable timer (src/timer.rs),   *)
(* and the two frontends (src/frontend.rs, the dense/generic one, and      *)
(* src/life_like.rs, the sparse one) that drive an automaton with it.      *)
(*                                                                         *)
(* Time is counted in units of 5 ms: a Duration and an Instant are         *)
(* naturals, Duration::from_millis(10) is KeyStep = 2.                     *)
(***************************************************************************)
EXTENDS Integers, Naturals, Sequences, FiniteSets, TLC

\* ---------------------------------------------------------------- bounds
MaxTime == 4        \* largest clock reading (Instant) the clock returns
MaxBack == 1        \* how far a clock reading may lie before last_checked
MaxAmount == 3      \* largest period the rate-decrease key may produce
MaxInitAmount == 2  \* largest update_rate handed to the constructor
MaxTotal == 4       \* cap of the elapsed time accounted to one timer
MaxSide == 3        \* largest number of columns and of rows of a rendered grid
MaxPop == 2         \* largest number of populated cells of a rendered sparse automaton
MaxCells == 7       \* largest number of columns and of rows handed to new()
MaxMargin == 1      \* largest cell_margin handed to new()
MaxGen == 2         \* cap of the number of automaton steps, and of the
                    \* Finished results one timer returns to checked_update

\* ------------------------------------------------------ program constants
KeyStep == 2        \* Duration::from_millis(10), in units of 5 ms
DefaultMargin == 5  \* FrontendBuilder's default cell_margin
DefaultWindow == <<1024, 768>>  \* FrontendBuilder's default window_size

Instants == 0..MaxTime
Variants == {"dense", "sparse"}
Keys == {"NONE", "KEY_SPACE", "KEY_MINUS", "KEY_EQUAL", "KEY_OTHER"}
TimerStates == {"Ongoing", "Finished", "Paused"}
CellValues == {"alive", "dead"}

VARIABLES
    variant,      \* which frontend: "dense" (frontend.rs) or "sparse" (life_like.rs)
    timer,        \* RaylibFrontend.timer : RepeatingTimer
    generation,   \* number of automaton.step() calls made so far
    finished,     \* automaton.is_finished()
    cells,        \* automaton.cells(): rows of cells (dense) or a position map (sparse)
    grid_size,    \* <<columns, rows>>: automaton.grid_size() or the sparse bounding box
    default_color,\* sparse only: the colour of unpopulated positions
    window_size,  \* <<width, height>> of the window, in pixels (u32)
    cell_margin,  \* RaylibFrontend.cell_margin (u32)
    rect_size,    \* RaylibFrontend.rect_size: the side of a cell (f32)
    center_translation, \* RaylibFrontend.center_translation: <<x, y>> (f32)
    frame,        \* the draw commands of the last display_grid(), in order
    rl_close,     \* what rl.window_should_close() answers
    pc,           \* position of the caller: "api" or a place in the event loop
    \* ---- observations of the last call
    op,           \* the operation that made the last step
    timer_state,  \* TimerState its timer.update() returned, "None" without update
    tick_some,    \* whether it was a tick() that returned Some(_)
    elapsed,      \* the elapsed Duration its update() computed, 0 without update
    went_back,    \* its update() read a clock earlier than last_checked
    mid_cycle,    \* it replaced a timer whose time_left was below its period
    mouse,        \* the cell <<x, y>> under the cursor if the left mouse button was
                  \* pressed when it polled the input, <<>> otherwise
    \* ---- history of the current timer object
    prev_call,    \* clock reading of the previous update() on this timer, -1 if none
    fresh,        \* the timer has never been paused since it was created
    total,        \* sum of the elapsed times its unpaused updates accounted
    n_finished,   \* number of Finished results it returned
    n_updates,    \* whether it has been updated at all
    cycle_pos,    \* elapsed time accumulated since the last exact period boundary
    aligned,      \* every period boundary so far was hit exactly by an update
    in_period,    \* no unpaused update of it saw elapsed > its period
    skipped,      \* some update of it, made while paused, saw elapsed > 0
    floored,      \* it was made by a rate-increase key that brought the period to zero
    resumed       \* the rate key pressed in this call, or right before this tick,
                  \* replaced a paused timer

vars == <<variant, timer, generation, finished, cells, grid_size, default_color,
          window_size, cell_margin, rect_size, center_translation,
          frame, rl_close, pc, op, timer_state,
          tick_some, elapsed, prev_call, fresh, total, n_finished, n_updates,
          cycle_pos, aligned, in_period, skipped, went_back, mid_cycle, floored, resumed,
          mouse>>

Max(a, b) == IF a >= b THEN a ELSE b

\* ------------------------------------------------------------ f32 values
\* (the arithmetic of the f32 expressions in RaylibFrontend::new and display_grid)
\* An f32 is [c |-> "fin", m, k] for the number m / 2^k (m odd unless k = 0),
\* [c |-> "inf", m |-> sign, k |-> 0] or [c |-> "nan", m |-> 0, k |-> 0].

RECURSIVE Pow2(_)
Pow2(n) == IF n <= 0 THEN 1 ELSE 2 * Pow2(n - 1)

\* an f32 significand has 24 bits: it is below 2^24
Significand == Pow2(24)

Abs(i) == IF i < 0 THEN -i ELSE i
Sign(i) == IF i < 0 THEN -1 ELSE IF i > 0 THEN 1 ELSE 0

NaN == [c |-> "nan", m |-> 0, k |-> 0]
Inf(s) == [c |-> "inf", m |-> s, k |-> 0]

\* m / 2^k in lowest terms
RECURSIVE Fin(_, _)
Fin(m, k) ==
    IF m = 0 THEN [c |-> "fin", m |-> 0, k |-> 0]
    ELSE IF k > 0 /\ m % 2 = 0 THEN Fin(m \div 2, k - 1)
    ELSE [c |-> "fin", m |-> m, k |-> k]

\* `u as f32` for a small unsigned integer
F32(u) == Fin(u, 0)

Half == Fin(1, 1)

\* a >= 0 halved, rounding to nearest, ties to even
HalfEven(a) ==
    IF a % 2 = 0 THEN a \div 2
    ELSE IF (a \div 2) % 2 = 0 THEN a \div 2 ELSE a \div 2 + 1

\* a / 2^k, a >= 0, in f32: 24 significant bits, round to nearest, ties to even
\* (sticky: a bit already shifted out was nonzero)
RECURSIVE RoundMant(_, _, _)
RoundMant(a, k, sticky) ==
    IF a < Significand THEN Fin(a, k)
    ELSE IF a < 2 * Significand
         THEN IF sticky /\ a % 2 = 1
              THEN Fin(a \div 2 + 1, k - 1)
              ELSE Fin(HalfEven(a), k - 1)
         ELSE RoundMant(a \div 2, k - 1, sticky \/ a % 2 = 1)

\* the f32 nearest to m / 2^k
Round(m, k) ==
    LET r == RoundMant(Abs(m), k, FALSE)
    IN  IF m < 0 THEN [r EXCEPT !.m = -r.m] ELSE r


\* numerator of the finite x over the denominator 2^k, k >= x.k
Num(x, k) == x.m * Pow2(k - x.k)

fneg(x) == IF x.c = "nan" THEN x ELSE [x EXCEPT !.m = -x.m]

\* x + y
fadd(x, y) ==
    IF x.c = "nan" \/ y.c = "nan" THEN NaN
    ELSE IF x.c = "inf" /\ y.c = "inf" THEN (IF x.m = y.m THEN x ELSE NaN)
    ELSE IF x.c = "inf" THEN x
    ELSE IF y.c = "inf" THEN y
    ELSE LET k == Max(x.k, y.k) IN Round(Num(x, k) + Num(y, k), k)

\* x - y
fsub(x, y) == fadd(x, fneg(y))

\* x * y
fmul(x, y) ==
    IF x.c = "nan" \/ y.c = "nan" THEN NaN
    ELSE IF x.c = "inf" \/ y.c = "inf"
         THEN (IF x.m = 0 \/ y.m = 0 THEN NaN ELSE Inf(Sign(x.m) * Sign(y.m)))
    ELSE Round(x.m * y.m, x.k + y.k)

\* f32::mul_add: x * y + z with a single rounding
mul_add(x, y, z) ==
    IF x.c = "fin" /\ y.c = "fin" /\ z.c = "fin"
    THEN LET k == Max(x.k + y.k, z.k)
         IN  Round(x.m * y.m * Pow2(k - x.k - y.k) + Num(z, k), k)
    ELSE fadd(fmul(x, y), z)

\* n / d for integers n >= 0, d > 0, as the f32 nearest to the quotient:
\* the quotient is scaled to 25 bits, the remainder is the sticky bit
RECURSIVE DivScaled(_, _, _)
DivScaled(n, d, k) ==
    IF n = 0 THEN Fin(0, 0)
    ELSE IF n \div d < Significand
         THEN DivScaled(2 * n, d, k + 1)
         ELSE RoundMant(n \div d, k, n % d # 0)

\* x / y
fdiv(x, y) ==
    IF x.c = "nan" \/ y.c = "nan" THEN NaN
    ELSE IF x.c = "inf" THEN (IF y.c = "inf" THEN NaN
                              ELSE Inf(x.m * (IF y.m < 0 THEN -1 ELSE 1)))
    ELSE IF y.c = "inf" THEN Fin(0, 0)
    ELSE IF y.m = 0 THEN (IF x.m = 0 THEN NaN ELSE Inf(Sign(x.m)))
    ELSE LET k == Max(x.k, y.k)
             q == DivScaled(Abs(Num(x, k)), Abs(Num(y, k)), 0)
         IN  IF Sign(x.m) * Sign(y.m) < 0 THEN [q EXCEPT !.m = -q.m] ELSE q

\* x < y for non-NaN values
flt(x, y) ==
    IF x.c = "inf" THEN x.m < 0 /\ ~(y.c = "inf" /\ y.m < 0)
    ELSE IF y.c = "inf" THEN y.m > 0
    ELSE LET k == Max(x.k, y.k) IN Num(x, k) < Num(y, k)

\* f32::min: the smaller one, a NaN operand is ignored
fmin(x, y) ==
    IF x.c = "nan" THEN y
    ELSE IF y.c = "nan" THEN x
    ELSE IF flt(y, x) THEN y ELSE x

\* ------------------------------------------------------------- timer.rs

\* variant: the distance between the two readings, whichever is later
duration_since_abs(now, earlier) == IF now >= earlier THEN now - earlier ELSE earlier - now

\* Instant::duration_since saturates at zero when `earlier` is later than self.
duration_since(now, earlier) == IF now >= earlier THEN now - earlier ELSE 0

\* Duration::checked_sub: None (here -1) on underflow.
checked_sub(a, b) == IF a >= b THEN a - b ELSE -1

unwrap_or(opt, default) == IF opt = -1 THEN default ELSE opt

RepeatingTimer_new(amount, now) ==
    [amount |-> amount, time_left |-> amount, last_checked |-> now, paused |-> FALSE]

\* variant: the period boundary is tested against the period, not time_left
update_state_guard_amount(self, el) ==
    IF el >= self.amount
    THEN [timer |-> [self EXCEPT !.time_left =
                        IF el > self.amount
                        THEN self.amount
                        ELSE unwrap_or(checked_sub(self.amount, el - self.time_left),
                                       self.amount)],
          state |-> "Finished"]
    ELSE [timer |-> [self EXCEPT !.time_left = self.time_left - el],
          state |-> "Ongoing"]

\* variant: the reset is decided by the overshoot, not by elapsed
update_state_overshoot(self, el) ==
    IF el >= self.time_left
    THEN [timer |-> [self EXCEPT !.time_left =
                        IF el - self.time_left > self.amount
                        THEN self.amount
                        ELSE unwrap_or(checked_sub(self.amount, el - self.time_left),
                                       self.amount)],
          state |-> "Finished"]
    ELSE [timer |-> [self EXCEPT !.time_left = self.time_left - el],
          state |-> "Ongoing"]

\* variant: strict comparison at the period boundary
update_state_strict(self, el) ==
    IF el > self.time_left
    THEN [timer |-> [self EXCEPT !.time_left =
                        IF el > self.amount
                        THEN self.amount
                        ELSE unwrap_or(checked_sub(self.amount, el - self.time_left),
                                       self.amount)],
          state |-> "Finished"]
    ELSE [timer |-> [self EXCEPT !.time_left = self.time_left - el],
          state |-> "Ongoing"]

\* variant: no reset branch, the overshoot is subtracted saturating at zero
update_state_saturate(self, el) ==
    IF el >= self.time_left
    THEN [timer |-> [self EXCEPT !.time_left =
                        unwrap_or(checked_sub(self.amount, el - self.time_left), 0)],
          state |-> "Finished"]
    ELSE [timer |-> [self EXCEPT !.time_left = self.time_left - el],
          state |-> "Ongoing"]

\* variant: the whole elapsed time, not the overshoot, is carried over
update_state_carry_elapsed(self, el) ==
    IF el >= self.time_left
    THEN [timer |-> [self EXCEPT !.time_left =
                        IF el > self.amount
                        THEN self.amount
                        ELSE unwrap_or(checked_sub(self.amount, el), self.amount)],
          state |-> "Finished"]
    ELSE [timer |-> [self EXCEPT !.time_left = self.time_left - el],
          state |-> "Ongoing"]

\* variant: an Ongoing update leaves time_left alone
update_state_idle(self, el) ==
    IF el >= self.time_left
    THEN [timer |-> [self EXCEPT !.time_left =
                        IF el > self.amount
                        THEN self.amount
                        ELSE unwrap_or(checked_sub(self.amount, el - self.time_left),
                                       self.amount)],
          state |-> "Finished"]
    ELSE [timer |-> self, state |-> "Ongoing"]

update_state(self, el) ==
    IF el >= self.time_left
    THEN [timer |-> [self EXCEPT !.time_left =
                        IF el > self.amount
                        THEN self.amount
                        ELSE unwrap_or(checked_sub(self.amount, el - self.time_left),
                                       self.amount)],
          state |-> "Finished"]
    ELSE [timer |-> [self EXCEPT !.time_left = self.time_left - el],
          state |-> "Ongoing"]

\* variant: last_checked is refreshed only when the timer is not paused
update_stale(self, now) ==
    LET el == duration_since(now, self.last_checked)
        checked == [self EXCEPT !.last_checked = now]
    IN  IF self.paused
        THEN [timer |-> self, state |-> "Paused", elapsed |-> el]
        ELSE [timer |-> update_state(checked, el).timer,
              state |-> update_state(checked, el).state,
              elapsed |-> el]

update(self, now) ==
    LET el == duration_since(now, self.last_checked)
        checked == [self EXCEPT !.last_checked = now]
    IN  IF self.paused
        THEN [timer |-> checked, state |-> "Paused", elapsed |-> el]
        ELSE [timer |-> update_state(checked, el).timer,
              state |-> update_state(checked, el).state,
              elapsed |-> el]

\* Instant::checked_duration_since: None (here -1) when `earlier` is later
checked_duration_since(now, earlier) == IF now >= earlier THEN now - earlier ELSE -1

\* checked_update: state "None" stands for the Option's None
checked_update(self, now) ==
    LET el == checked_duration_since(now, self.last_checked)
        checked == [self EXCEPT !.last_checked = now]
    IN  IF el = -1
        THEN [timer |-> checked, state |-> "None", elapsed |-> 0]
        ELSE [timer |-> update_state(checked, el).timer,
              state |-> update_state(checked, el).state,
              elapsed |-> el]

toggle_pause(self) == [self EXCEPT !.paused = ~self.paused]

rate(self) == self.amount

\* ---------------------------------------------- frontend.rs / life_like.rs

\* variant: tick steps the automaton whenever the timer is not paused
tick_steps_unpaused(state) == state # "Paused"

\* RaylibFrontend::tick: matches!(self.timer.update(), TimerState::Finished)
tick_steps(state) == state = "Finished"

window_should_close(v, fin, close) ==
    IF v = "sparse" THEN fin \/ close ELSE close

\* the cell side one axis allows: ((cells + 1) * -margin + win) / cells
axis_side(win, ncells, margin) ==
    fdiv(mul_add(fadd(ncells, F32(1)), fneg(margin), win), ncells)

\* the pixel size of the grid on one axis: cells * size + (cells + 1) * margin
axis_grid(side, ncells, margin) ==
    mul_add(ncells, side, fmul(fadd(ncells, F32(1)), margin))

\* variant: the cell side is the larger of what the two axes allow
new_geometry_widest(window, dims, margin) ==
    LET m == F32(margin)
        win == <<F32(window[1]), F32(window[2])>>
        gd == <<F32(dims[1]), F32(dims[2])>>
        x == axis_side(win[1], gd[1], m)
        y == axis_side(win[2], gd[2], m)
        side == IF fmin(x, y) = x THEN y ELSE x
        gsz == <<axis_grid(side, gd[1], m), axis_grid(side, gd[2], m)>>
    IN  [rect_size |-> side,
         center_translation |->
            <<fsub(fmul(win[1], Half), fmul(gsz[1], Half)),
              fsub(fmul(win[2], Half), fmul(gsz[2], Half))>>]

\* the geometry RaylibFrontend::new computes for a window <<w, h>>, a grid of
\* <<columns, rows>> cells and a cell margin
new_geometry(window, dims, margin) ==
    LET m == F32(margin)
        win == <<F32(window[1]), F32(window[2])>>
        gd == <<F32(dims[1]), F32(dims[2])>>
        x == axis_side(win[1], gd[1], m)
        y == axis_side(win[2], gd[2], m)
        side == fmin(x, y)
        gsz == <<axis_grid(side, gd[1], m), axis_grid(side, gd[2], m)>>
    IN  [rect_size |-> side,
         center_translation |->
            <<fsub(fmul(win[1], Half), fmul(gsz[1], Half)),
              fsub(fmul(win[2], Half), fmul(gsz[2], Half))>>]

\* display_grid: the screen coordinate of logical coordinate p on one axis,
\* p * rect_size + (p + 1) * cell_margin + center
cell_pos(p, size, margin, center) ==
    fadd(mul_add(F32(p), size, fmul(fadd(F32(p), F32(1)), F32(margin))), center)

\* RenderCell::render_cell of the caller's cell type (as in examples/conway.rs)
render_cell(cell) == IF cell = "alive" THEN "WHITE" ELSE "BLACK"

\* the positions the sparse automaton may populate: the bounding box and one
\* column beyond it
Space(gs) == (0..gs[1]) \X (0..(gs[2] - 1))

\* the values automaton.cells() can have
CellGrids(v, gs) ==
    IF v = "dense"
    THEN [1..gs[2] -> [1..gs[1] -> CellValues]]
    ELSE UNION {[D -> {"alive"}] : D \in SUBSET Space(gs)}

\* variant: dead cells are left to the background, only live cells are drawn
display_grid_dense_live(cs, size, margin, center) ==
    LET rows == Len(cs)
        cols == IF rows = 0 THEN 0 ELSE Len(cs[1])
        px == [x \in 0..(cols - 1) |-> cell_pos(x, size, margin, center[1])]
        py == [y \in 0..(rows - 1) |-> cell_pos(y, size, margin, center[2])]
    IN  <<<<"clear", "GRAY">>>> \o
        SelectSeq([i \in 1..(rows * cols) |->
                      LET y == (i - 1) \div cols
                          x == (i - 1) % cols
                      IN  <<"rect", x, y, render_cell(cs[y + 1][x + 1]), <<px[x], py[y]>>>>],
                  LAMBDA c : c[4] # render_cell("dead"))

\* display_grid of frontend.rs: clear, then one rectangle per cell, row by row;
\* a draw is <<"rect", x, y, colour, <<screen x, screen y>>>>, the rectangle's
\* size being rect_size on both axes
display_grid_dense(cs, size, margin, center) ==
    LET rows == Len(cs)
        cols == IF rows = 0 THEN 0 ELSE Len(cs[1])
        px == [x \in 0..(cols - 1) |-> cell_pos(x, size, margin, center[1])]
        py == [y \in 0..(rows - 1) |-> cell_pos(y, size, margin, center[2])]
    IN  <<<<"clear", "GRAY">>>> \o
        [i \in 1..(rows * cols) |->
            LET y == (i - 1) \div cols
                x == (i - 1) % cols
            IN  <<"rect", x, y, render_cell(cs[y + 1][x + 1]), <<px[x], py[y]>>>>]

\* variant: the populated cells of the automaton are drawn, wherever they are
display_grid_sparse_populated(cs, gs, default, size, margin, center) ==
    LET px == [x \in 0..gs[1] |-> cell_pos(x, size, margin, center[1])]
        py == [y \in 0..(gs[2] - 1) |-> cell_pos(y, size, margin, center[2])]
    IN  <<<<"clear", "GRAY">>>> \o
        SelectSeq([i \in 1..((gs[1] + 1) * gs[2]) |->
                      LET x == (i - 1) \div gs[2]
                          y == (i - 1) % gs[2]
                      IN  <<"rect", x, y,
                            IF <<x, y>> \in DOMAIN cs THEN render_cell(cs[<<x, y>>])
                                                      ELSE default,
                            <<px[x], py[y]>>>>],
                  LAMBDA c : <<c[2], c[3]>> \in DOMAIN cs)

\* variant: the background is cleared after the cells were drawn
display_grid_sparse_clear_last(cs, gs, default, size, margin, center) ==
    LET px == [x \in 0..(gs[1] - 1) |-> cell_pos(x, size, margin, center[1])]
        py == [y \in 0..(gs[2] - 1) |-> cell_pos(y, size, margin, center[2])]
    IN  [i \in 1..(gs[1] * gs[2]) |->
            LET x == (i - 1) \div gs[2]
                y == (i - 1) % gs[2]
            IN  <<"rect", x, y,
                  IF <<x, y>> \in DOMAIN cs THEN render_cell(cs[<<x, y>>]) ELSE default,
                  <<px[x], py[y]>>>>]
        \o <<<<"clear", "GRAY">>>>

\* display_grid of life_like.rs: clear, then one rectangle per position of the
\* bounding box, column by column
display_grid_sparse(cs, gs, default, size, margin, center) ==
    LET px == [x \in 0..(gs[1] - 1) |-> cell_pos(x, size, margin, center[1])]
        py == [y \in 0..(gs[2] - 1) |-> cell_pos(y, size, margin, center[2])]
    IN  <<<<"clear", "GRAY">>>> \o
        [i \in 1..(gs[1] * gs[2]) |->
            LET x == (i - 1) \div gs[2]
                y == (i - 1) % gs[2]
            IN  <<"rect", x, y,
                  IF <<x, y>> \in DOMAIN cs THEN render_cell(cs[<<x, y>>]) ELSE default,
                  <<px[x], py[y]>>>>]

\* variant: a rate change keeps the running timer and only sets its period
default_key_actions_prorate(self, key, now) ==
    CASE key = "KEY_SPACE" -> toggle_pause(self)
      [] key = "KEY_MINUS" -> [self EXCEPT !.amount = rate(self) + KeyStep]
      [] key = "KEY_EQUAL" ->
            [self EXCEPT !.amount = unwrap_or(checked_sub(rate(self), KeyStep), 0)]
      [] OTHER -> self

\* variant: a rate increase that would underflow keeps the period
default_key_actions_nofloor(self, key, now) ==
    CASE key = "KEY_SPACE" -> toggle_pause(self)
      [] key = "KEY_MINUS" -> RepeatingTimer_new(rate(self) + KeyStep, now)
      [] key = "KEY_EQUAL" ->
            RepeatingTimer_new(unwrap_or(checked_sub(rate(self), KeyStep), rate(self)), now)
      [] OTHER -> self

\* the timer after default_key_actions saw `key` (now: the clock reading of new())
default_key_actions(self, key, now) ==
    CASE key = "KEY_SPACE" -> toggle_pause(self)
      [] key = "KEY_MINUS" -> RepeatingTimer_new(rate(self) + KeyStep, now)
      [] key = "KEY_EQUAL" ->
            RepeatingTimer_new(unwrap_or(checked_sub(rate(self), KeyStep), 0), now)
      [] OTHER -> self

\* ---------------------------------------------------------------- state

TypeOK ==
    /\ variant \in Variants
    /\ timer \in [amount : 0..(MaxAmount + 1), time_left : 0..(MaxAmount + 1),
                  last_checked : Instants, paused : BOOLEAN]
    /\ generation \in 0..MaxGen
    /\ finished \in BOOLEAN
    /\ rl_close \in BOOLEAN
    /\ timer_state \in TimerStates \cup {"None"}
    /\ tick_some \in BOOLEAN
    /\ elapsed \in 0..MaxTime

\* a call that does not update the timer observes no timer state
NoUpdate ==
    /\ timer_state' = "None"
    /\ tick_some' = FALSE
    /\ elapsed' = 0
    /\ went_back' = FALSE

\* the history of a timer object that was just created
NewHistory ==
    /\ prev_call' = -1
    /\ fresh' = TRUE
    /\ total' = 0
    /\ n_finished' = 0
    /\ n_updates' = FALSE
    /\ cycle_pos' = 0
    /\ aligned' = TRUE
    /\ in_period' = TRUE
    /\ skipped' = FALSE

\* RaylibFrontend::new over an automaton with grid (bounding box) gs, the
\* caller standing at `at`
InitFrontend(gs, at) ==
    /\ variant \in Variants
    /\ \E update_rate \in 0..MaxInitAmount : timer = RepeatingTimer_new(update_rate, 0)
    /\ generation = 0
    /\ finished = FALSE
    /\ grid_size = gs
    /\ window_size = DefaultWindow
    /\ cell_margin = DefaultMargin
    /\ rect_size = new_geometry(window_size, grid_size, cell_margin).rect_size
    /\ center_translation =
          new_geometry(window_size, grid_size, cell_margin).center_translation
    /\ cells \in CellGrids(variant, gs)
    /\ default_color = "BLACK"
    /\ frame = <<>>
    /\ rl_close = FALSE
    /\ pc = at
    /\ op = "new"
    /\ timer_state = "None"
    /\ tick_some = FALSE
    /\ elapsed = 0
    /\ prev_call = -1
    /\ fresh = TRUE
    /\ total = 0
    /\ n_finished = 0
    /\ n_updates = FALSE
    /\ cycle_pos = 0
    /\ aligned = TRUE
    /\ in_period = TRUE
    /\ skipped = FALSE
    /\ went_back = FALSE
    /\ mid_cycle = FALSE
    /\ floored = FALSE
    /\ resumed = FALSE
    /\ mouse = <<>>

Init == InitFrontend(<<1, 1>>, "api")

\* automaton.step(): the automaton is an opaque collaborator; one call is one
\* generation, after which it may report finished (and then stays finished).
AutomatonStep ==
    /\ generation' = generation + 1
    /\ finished' \in IF finished THEN {TRUE} ELSE BOOLEAN
    /\ cells' \in CellGrids(variant, grid_size)

\* RaylibFrontend::tick, reading the clock as `now`
Tick(now) ==
    LET r == update(timer, now) IN
    /\ generation < MaxGen
    /\ now >= timer.last_checked - MaxBack
    /\ ~timer.paused => total + r.elapsed <= MaxTotal
    /\ timer' = r.timer
    /\ timer_state' = r.state
    /\ elapsed' = r.elapsed
    /\ tick_some' = tick_steps(r.state)
    /\ IF tick_steps(r.state) THEN AutomatonStep
                               ELSE UNCHANGED <<generation, finished, cells>>
    /\ op' = "tick"
    /\ prev_call' = now
    /\ n_updates' = TRUE
    /\ n_finished' = IF r.state = "Finished" THEN n_finished + 1 ELSE n_finished
    /\ went_back' = (now < timer.last_checked)
    /\ IF timer.paused
       THEN /\ skipped' = (skipped \/ r.elapsed > 0)
            /\ UNCHANGED <<total, cycle_pos, aligned, in_period>>
       ELSE /\ skipped' = skipped
            /\ total' = total + r.elapsed
            /\ cycle_pos' = IF cycle_pos + r.elapsed = timer.amount
                            THEN 0 ELSE cycle_pos + r.elapsed
            /\ aligned' = (aligned /\ cycle_pos + r.elapsed <= timer.amount)
            /\ in_period' = (in_period /\ r.elapsed <= timer.amount)
    /\ mid_cycle' = FALSE
    /\ mouse' = <<>>
    /\ UNCHANGED <<variant, window_size, cell_margin, rect_size,
                   center_translation, grid_size, default_color, frame, rl_close, fresh, floored>>
    /\ resumed' = (resumed /\ op \in {"KEY_MINUS", "KEY_EQUAL"})

\* RaylibFrontend::step
Step ==
    /\ generation < MaxGen
    /\ AutomatonStep
    /\ op' = "step"
    /\ NoUpdate
    /\ mid_cycle' = FALSE
    /\ mouse' = <<>>
    /\ UNCHANGED <<variant, window_size, cell_margin, rect_size,
                   center_translation, timer, grid_size, default_color, frame, rl_close,
                   prev_call, fresh, total, n_finished, n_updates, cycle_pos, aligned, in_period,
                   skipped, floored>>
    /\ resumed' = FALSE

\* RaylibFrontend::default_key_actions, rl.get_key_pressed() answering `key`
\* (only the rate keys read the clock, in RepeatingTimer::new; `now` is pinned
\* to 0 for the other keys) while the left mouse button is in state `lmb`;
\* the function never asks rl for the mouse
DefaultKeyActions(key, now, lmb) ==
    /\ key = "KEY_MINUS" => rate(timer) + KeyStep <= MaxAmount
    /\ key \in {"KEY_MINUS", "KEY_EQUAL"} => now >= timer.last_checked
    /\ key \notin {"KEY_MINUS", "KEY_EQUAL"} => now = 0
    /\ timer' = default_key_actions(timer, key, now)
    /\ op' = key
    /\ IF key \in {"KEY_MINUS", "KEY_EQUAL"}
       THEN NewHistory
       ELSE /\ fresh' = (fresh /\ key # "KEY_SPACE")
            /\ UNCHANGED <<prev_call, total, n_finished, n_updates, cycle_pos, aligned, in_period,
                           skipped>>
    /\ NoUpdate
    /\ mid_cycle' = (key \in {"KEY_MINUS", "KEY_EQUAL"} /\ timer.time_left < timer.amount)
    /\ floored' = IF key \in {"KEY_MINUS", "KEY_EQUAL"}
                  THEN key = "KEY_EQUAL" /\ rate(timer) > 0 /\ rate(timer') = 0
                  ELSE floored
    /\ resumed' = (key \in {"KEY_MINUS", "KEY_EQUAL"} /\ timer.paused)
    /\ mouse' = lmb
    /\ UNCHANGED <<variant, window_size, cell_margin, rect_size,
                   center_translation, generation, finished, cells, grid_size, default_color,
                   frame, rl_close>>

\* RaylibFrontend::display_grid
DisplayGrid ==
    /\ frame' = IF variant = "dense"
                THEN display_grid_dense(cells, rect_size, cell_margin,
                                        center_translation)
                ELSE display_grid_sparse(cells, grid_size, default_color,
                                         rect_size, cell_margin, center_translation)
    /\ op' = "display_grid"
    /\ NoUpdate
    /\ mid_cycle' = FALSE
    /\ mouse' = <<>>
    /\ UNCHANGED <<variant, window_size, cell_margin, rect_size,
                   center_translation, timer, generation, finished, cells, grid_size,
                   default_color, rl_close,
                   prev_call, fresh, total, n_finished, n_updates, cycle_pos,
                   aligned, in_period, skipped, floored>>
    /\ resumed' = FALSE

\* the loop condition `!frontend.window_should_close()`, rl answering `close`
WindowShouldClose(close) ==
    /\ rl_close' = close
    /\ pc' = IF window_should_close(variant, finished, close) THEN "done" ELSE "display"
    /\ op' = "window_should_close"
    /\ NoUpdate
    /\ mid_cycle' = FALSE
    /\ mouse' = <<>>
    /\ UNCHANGED <<variant, window_size, cell_margin, rect_size,
                   center_translation, timer, generation, finished, cells, grid_size,
                   default_color, frame,
                   prev_call, fresh, total, n_finished, n_updates, cycle_pos,
                   aligned, in_period, skipped, floored>>
    /\ resumed' = FALSE

\* RepeatingTimer::checked_update called on the frontend's timer, reading the
\* clock as `now`
CheckedUpdate(now) ==
    LET r == checked_update(timer, now) IN
    /\ now >= timer.last_checked - MaxBack
    /\ total + r.elapsed <= MaxTotal
    /\ r.state = "Finished" => n_finished < MaxGen
    /\ timer' = r.timer
    /\ timer_state' = r.state
    /\ elapsed' = r.elapsed
    /\ tick_some' = FALSE
    /\ op' = "checked_update"
    /\ prev_call' = now
    /\ n_updates' = TRUE
    /\ n_finished' = IF r.state = "Finished" THEN n_finished + 1 ELSE n_finished
    /\ went_back' = (now < timer.last_checked)
    /\ total' = total + r.elapsed
    /\ cycle_pos' = IF cycle_pos + r.elapsed = timer.amount
                    THEN 0 ELSE cycle_pos + r.elapsed
    /\ aligned' = (aligned /\ cycle_pos + r.elapsed <= timer.amount)
    /\ in_period' = (in_period /\ r.elapsed <= timer.amount)
    /\ mid_cycle' = FALSE
    /\ mouse' = <<>>
    /\ UNCHANGED <<variant, window_size, cell_margin, rect_size,
                   center_translation, generation, finished, cells, grid_size, default_color,
                   frame, rl_close, fresh, skipped, floored>>
    /\ resumed' = FALSE

ApiTick == pc = "api" /\ (\E now \in Instants : Tick(now)) /\ UNCHANGED pc
ApiStep == pc = "api" /\ Step /\ UNCHANGED pc
ApiKeys ==
    /\ pc = "api"
    /\ \E key \in Keys, now \in Instants : DefaultKeyActions(key, now, <<>>)
    /\ UNCHANGED pc

Next == ApiTick \/ ApiStep \/ ApiKeys

Spec == Init /\ [][Next]_vars

\* ---- the frontend's timer driven through all its methods: update (tick),
\* toggle_pause and new (the keys) and checked_update
ApiCheckedUpdate ==
    /\ pc = "api"
    /\ \E now \in Instants : CheckedUpdate(now)
    /\ UNCHANGED pc

TimerNext == ApiTick \/ ApiKeys \/ ApiCheckedUpdate

TimerSpec == Init /\ [][TimerNext]_vars

\* ---- key and mouse input: default_key_actions polled while the user also
\* clicks cells, between steps of the automaton
MouseStates(gs) == {<<>>} \cup ((0..(gs[1] - 1)) \X (0..(gs[2] - 1)))

InputInit == InitFrontend(<<2, 1>>, "api")

InputKeys ==
    /\ pc = "api"
    /\ \E key \in Keys, now \in Instants, lmb \in MouseStates(grid_size) :
          DefaultKeyActions(key, now, lmb)
    /\ UNCHANGED pc

InputNext == InputKeys \/ ApiStep

InputSpec == InputInit /\ [][InputNext]_vars

\* ---- rendering: display_grid over every small grid
\* the subsets of S with at most n elements
RECURSIVE SubsetsUpTo(_, _)
SubsetsUpTo(S, n) ==
    IF n = 0 THEN {{}}
    ELSE LET P == SubsetsUpTo(S, n - 1)
         IN  P \cup {p \cup {a} : p \in P, a \in S}

\* the values automaton.cells() can have when a frame is drawn
RenderGrids(v, gs) ==
    IF v = "dense"
    THEN [1..gs[2] -> [1..gs[1] -> CellValues]]
    ELSE UNION {[D -> {"alive"}] : D \in SubsetsUpTo(Space(gs), MaxPop)}

RenderInit ==
    /\ variant \in Variants
    /\ timer = RepeatingTimer_new(MaxInitAmount, 0)
    /\ generation = 0
    /\ finished = FALSE
    /\ grid_size \in (0..MaxSide) \X (0..MaxSide)
    /\ window_size = DefaultWindow
    /\ cell_margin = DefaultMargin
    /\ rect_size = new_geometry(window_size, grid_size, cell_margin).rect_size
    /\ center_translation =
          new_geometry(window_size, grid_size, cell_margin).center_translation
    /\ cells \in RenderGrids(variant, grid_size)
    /\ default_color \in IF variant = "dense" THEN {"BLACK"} ELSE {"BLACK", "WHITE"}
    /\ frame = <<>>
    /\ rl_close = FALSE
    /\ pc = "api"
    /\ op = "new"
    /\ timer_state = "None"
    /\ tick_some = FALSE
    /\ elapsed = 0
    /\ prev_call = -1
    /\ fresh = TRUE
    /\ total = 0
    /\ n_finished = 0
    /\ n_updates = FALSE
    /\ cycle_pos = 0
    /\ aligned = TRUE
    /\ in_period = TRUE
    /\ skipped = FALSE
    /\ went_back = FALSE
    /\ mid_cycle = FALSE
    /\ floored = FALSE
    /\ resumed = FALSE
    /\ mouse = <<>>

ApiDisplay == pc = "api" /\ DisplayGrid /\ UNCHANGED pc

RenderNext == ApiDisplay

RenderSpec == RenderInit /\ [][RenderNext]_vars

\* ---- geometry: FrontendBuilder::finish / RaylibFrontend::new over small
\* grids, margins and windows, then display_grid over the blank automaton
WindowSizes == {<<1, 1>>, <<57, 57>>, <<100, 50>>}

\* an automaton whose cells are all dead (dense) or that has no cell (sparse)
BlankGrid(v, gs) ==
    IF v = "dense" THEN [y \in 1..gs[2] |-> [x \in 1..gs[1] |-> "dead"]] ELSE <<>>

\* the builder holds the configuration, no frontend exists yet
GeomInit ==
    /\ variant \in Variants
    /\ timer = RepeatingTimer_new(MaxInitAmount, 0)
    /\ generation = 0
    /\ finished = FALSE
    /\ grid_size \in (0..MaxCells) \X (0..MaxCells)
    /\ cells = BlankGrid(variant, grid_size)
    /\ default_color = "BLACK"
    /\ frame = <<>>
    /\ window_size \in WindowSizes
    /\ cell_margin \in 0..MaxMargin
    /\ rect_size = F32(0)
    /\ center_translation = <<F32(0), F32(0)>>
    /\ rl_close = FALSE
    /\ pc = "builder"
    /\ op = "builder"
    /\ timer_state = "None"
    /\ tick_some = FALSE
    /\ elapsed = 0
    /\ prev_call = -1
    /\ fresh = TRUE
    /\ total = 0
    /\ n_finished = 0
    /\ n_updates = FALSE
    /\ cycle_pos = 0
    /\ aligned = TRUE
    /\ in_period = TRUE
    /\ skipped = FALSE
    /\ went_back = FALSE
    /\ mid_cycle = FALSE
    /\ floored = FALSE
    /\ resumed = FALSE
    /\ mouse = <<>>

\* RaylibFrontend::new: it has no failure path, a frontend always comes back
New ==
    /\ rect_size' = new_geometry(window_size, grid_size, cell_margin).rect_size
    /\ center_translation' =
          new_geometry(window_size, grid_size, cell_margin).center_translation
    /\ timer' = RepeatingTimer_new(rate(timer), 0)
    /\ op' = "new"
    /\ NoUpdate
    /\ NewHistory
    /\ mid_cycle' = FALSE
    /\ floored' = FALSE
    /\ resumed' = FALSE
    /\ mouse' = <<>>
    /\ UNCHANGED <<variant, window_size, cell_margin, generation, finished, cells,
                   grid_size, default_color, frame, rl_close>>

BuilderFinish == pc = "builder" /\ New /\ pc' = "api"

GeomNext == BuilderFinish \/ ApiDisplay

GeomSpec == GeomInit /\ [][GeomNext]_vars

\* ---- the event loop of the examples:
\* while !window_should_close() { display_grid; default_key_actions; tick }
LoopInit == InitFrontend(<<2, 1>>, "check")

LoopCheck == pc = "check" /\ \E close \in BOOLEAN : WindowShouldClose(close)
LoopDisplay == pc = "display" /\ DisplayGrid /\ pc' = "keys"
LoopKeys ==
    /\ pc = "keys"
    /\ \E key \in Keys, now \in Instants : DefaultKeyActions(key, now, <<>>)
    /\ pc' = "tick"
LoopTick == pc = "tick" /\ (\E now \in Instants : Tick(now)) /\ pc' = "check"

LoopNext == LoopCheck \/ LoopDisplay \/ LoopKeys \/ LoopTick

LoopSpec == LoopInit /\ [][LoopNext]_vars

\* ---- the event loop running for ever.  No operation can tell where the
\* clock's epoch lies (only differences of readings are used), so the epoch is
\* moved to each reading that is stored: last_checked is always 0 and `now` is
\* the time since that reading.  The histories of the timer are not recorded,
\* and the generations are counted modulo MaxGen + 1.
LiveInit == InitFrontend(<<1, 1>>, "check")

LiveCheck == pc = "check" /\ \E close \in BOOLEAN : WindowShouldClose(close)

LiveDisplay == pc = "display" /\ DisplayGrid /\ pc' = "keys"

LiveKeys ==
    /\ pc = "keys"
    /\ \E key \in Keys : DefaultKeyActions(key, 0, <<>>)
    /\ pc' = "tick"

LiveTick ==
    /\ pc = "tick"
    /\ \E now \in Instants :
          LET r == update(timer, now) IN
          /\ timer' = [r.timer EXCEPT !.last_checked = 0]
          /\ timer_state' = r.state
          /\ elapsed' = r.elapsed
          /\ tick_some' = tick_steps(r.state)
          /\ IF tick_steps(r.state)
             THEN /\ generation' = (generation + 1) % (MaxGen + 1)
                  /\ finished' \in IF finished THEN {TRUE} ELSE BOOLEAN
                  /\ cells' \in CellGrids(variant, grid_size)
             ELSE UNCHANGED <<generation, finished, cells>>
    /\ op' = "tick"
    /\ went_back' = FALSE
    /\ mid_cycle' = FALSE
    /\ resumed' = FALSE
    /\ mouse' = <<>>
    /\ pc' = "check"
    /\ UNCHANGED <<variant, window_size, cell_margin, rect_size, center_translation,
                   grid_size, default_color, frame, rl_close, prev_call, fresh, total,
                   n_finished, n_updates, cycle_pos, aligned, in_period, skipped,
                   floored>>

LiveNext == LiveCheck \/ LiveDisplay \/ LiveKeys \/ LiveTick

\* the loop does not halt before window_should_close, default_key_actions or
\* tick, which all return at once; display_grid ends in raylib's end of frame,
\* which waits on the window system, so nothing is assumed of it
LiveSpec ==
    /\ LiveInit /\ [][LiveNext]_vars
    /\ WF_vars(LiveCheck) /\ WF_vars(LiveKeys) /\ WF_vars(LiveTick)

\* ------------------------------------------------------------ properties

\* C1: in every reachable state 0 <= time_left <= period (the timer's amount).
C1_TimeLeftInRange ==
    0 <= timer.time_left /\ timer.time_left <= timer.amount

C1_Witness ==
    /\ op = "tick" /\ ~fresh /\ n_finished > 0
    /\ 0 < timer.time_left /\ timer.time_left < timer.amount

\* C2 as stated: an unpaused update with elapsed >= time_left resets time_left
\* to the period when overshoot > period and carries the overshoot otherwise.
C2_Original ==
    [][(op' = "tick" /\ ~timer.paused /\ elapsed' >= timer.time_left) =>
          timer'.time_left =
              IF elapsed' - timer.time_left > timer.amount
              THEN timer.amount
              ELSE timer.amount - (elapsed' - timer.time_left)]_vars

\* C2 amended: an unpaused update with elapsed >= time_left resets time_left to
\* the period when elapsed > period, and otherwise sets it to period - overshoot.
C2_ResetByElapsed ==
    [][(op' = "tick" /\ ~timer.paused /\ elapsed' >= timer.time_left) =>
          timer'.time_left =
              IF elapsed' > timer.amount
              THEN timer.amount
              ELSE timer.amount - (elapsed' - timer.time_left)]_vars

\* the first Finished of a never-paused timer, seen with elapsed > period while
\* the overshoot (cycle_pos - period) is at most one period
C2_Witness ==
    /\ op = "tick" /\ timer_state = "Finished" /\ fresh /\ n_finished = 1
    /\ elapsed > timer.amount /\ cycle_pos > elapsed
    /\ cycle_pos <= 2 * timer.amount
    /\ timer.time_left = timer.amount

\* C3: an unpaused update returns Finished exactly when elapsed >= time_left;
\* otherwise it returns Ongoing, takes elapsed off time_left and leaves the
\* period and the paused flag alone.
C3_FinishedIffElapsed ==
    [][(op' = "tick" /\ ~timer.paused) =>
          /\ (timer_state' = "Finished") <=> (elapsed' >= timer.time_left)
          /\ timer_state' # "Finished" =>
                /\ timer_state' = "Ongoing"
                /\ timer'.time_left = timer.time_left - elapsed'
                /\ timer'.amount = timer.amount
                /\ timer'.paused = timer.paused]_vars

C3_Witness ==
    /\ op = "tick" /\ timer_state = "Ongoing" /\ elapsed > 0
    /\ timer.time_left + elapsed <= timer.amount

\* C4: a paused update returns Paused, leaves time_left alone and still sets
\* last_checked to the clock reading; an unpaused update that follows an update
\* accounts exactly the time between the two readings.
C4_PausedRefreshes ==
    [][(op' = "tick") =>
          /\ timer.paused =>
                /\ timer_state' = "Paused"
                /\ timer'.time_left = timer.time_left
                /\ timer'.last_checked = prev_call'
          /\ (~timer.paused /\ prev_call >= 0) =>
                elapsed' = Max(prev_call' - prev_call, 0)]_vars

C4_Witness ==
    /\ op = "tick" /\ ~timer.paused /\ timer_state # "Paused"
    /\ skipped /\ elapsed > 0 /\ total = elapsed

\* C5: an unpaused update that sees elapsed > 2 * period returns Finished once,
\* leaves time_left = period, and its tick steps the automaton exactly once.
C5_NoBacklog ==
    [][(op' = "tick" /\ ~timer.paused /\ elapsed' > 2 * timer.amount) =>
          /\ timer_state' = "Finished"
          /\ tick_some'
          /\ n_finished' = n_finished + 1
          /\ timer'.time_left = timer'.amount
          /\ generation' = generation + 1]_vars

C5_Witness ==
    /\ op = "tick" /\ timer_state = "Finished" /\ tick_some
    /\ timer.amount > 0 /\ elapsed > 2 * timer.amount

\* C6 as stated: from a fresh unpaused timer, updates whose elapsed times sum
\* to the period give exactly one Finished and leave time_left = period.
C6_Original ==
    (fresh /\ n_updates /\ total = timer.amount) =>
        (n_finished = 1 /\ timer.time_left = timer.amount)

\* C6 amended: the same for a period > 0, over any number of cycles: while every
\* period boundary is hit exactly, the Finished results count the completed
\* periods and time_left is the period less the time into the current one.
C6_OneFinishedPerCycle ==
    (fresh /\ aligned /\ timer.amount > 0) =>
        /\ n_finished * timer.amount + cycle_pos = total
        /\ timer.time_left = timer.amount - cycle_pos
        /\ cycle_pos < timer.amount

C6_Witness ==
    /\ fresh /\ aligned /\ op = "tick" /\ timer_state = "Finished"
    /\ timer.amount > 1 /\ total = 2 * timer.amount /\ n_finished = 2
    /\ 0 < elapsed /\ elapsed < timer.amount
    /\ timer.time_left = timer.amount

\* C7: right after a rate-change key the period is the new one and time_left
\* equals it, whatever was left of the old period.
C7_RateChangeImmediate ==
    [][(op' \in {"KEY_MINUS", "KEY_EQUAL"}) =>
          /\ rate(timer') = IF op' = "KEY_MINUS"
                            THEN rate(timer) + KeyStep
                            ELSE Max(rate(timer) - KeyStep, 0)
          /\ timer'.time_left = rate(timer')]_vars

C7_Witness ==
    /\ op \in {"KEY_MINUS", "KEY_EQUAL"} /\ mid_cycle
    /\ timer.amount > 0 /\ timer.time_left = timer.amount

\* C8: default_key_actions maps one key: minus -> period + 10 ms, equals ->
\* max(period - 10 ms, 0), space flips paused only, no key or another key
\* changes nothing; the automaton is never touched.
C8_KeyMapping ==
    [][(op' \in Keys) =>
          /\ generation' = generation /\ finished' = finished
          /\ op' = "KEY_MINUS" => timer'.amount = timer.amount + KeyStep
          /\ op' = "KEY_EQUAL" =>
                /\ timer'.amount = Max(timer.amount - KeyStep, 0)
                /\ timer'.amount >= 0
          /\ op' = "KEY_SPACE" => timer' = [timer EXCEPT !.paused = ~timer.paused]
          /\ op' \in {"NONE", "KEY_OTHER"} => timer' = timer]_vars

C8_Witness ==
    op = "KEY_EQUAL" /\ timer.amount = 0 /\ generation > 0

\* C9 as stated: an unpaused update whose clock reading is earlier than
\* last_checked sees zero elapsed, leaves time_left alone and returns Ongoing.
C9_Original ==
    [][(op' = "tick" /\ went_back' /\ ~timer.paused) =>
          /\ elapsed' = 0
          /\ timer'.time_left = timer.time_left
          /\ timer_state' = "Ongoing"]_vars

\* C9 amended: ... and returns Ongoing, unless time_left is zero (a zero
\* period), where it returns Finished.
C9_BackwardClockIsZero ==
    [][(op' = "tick" /\ went_back' /\ ~timer.paused) =>
          /\ elapsed' = 0
          /\ timer'.time_left = timer.time_left
          /\ timer_state' = IF timer.time_left = 0 THEN "Finished" ELSE "Ongoing"]_vars

C9_Witness ==
    /\ op = "tick" /\ went_back /\ timer_state = "Ongoing"
    /\ elapsed = 0 /\ timer.time_left < timer.amount

\* C10: in the event loop of either frontend, window_should_close() is true once
\* the automaton is finished, so the loop body never runs on a finished automaton.
C10_LoopStopsWhenFinished ==
    pc \in {"display", "keys", "tick"} => ~finished

\* C19: tick returns Some(_) and steps the automaton exactly once if and only if
\* its timer update returned Finished; on Ongoing or Paused it returns None and
\* leaves the automaton alone, and a tick on a paused timer always sees Paused.
C19_TickStepsIffFinished ==
    [][(op' = "tick") =>
          /\ tick_some' <=> (timer_state' = "Finished")
          /\ timer_state' = "Finished" => generation' = generation + 1
          /\ timer_state' # "Finished" =>
                /\ timer_state' \in {"Ongoing", "Paused"}
                /\ UNCHANGED <<generation, finished, cells>>
          /\ timer.paused => (timer_state' = "Paused" /\ ~tick_some')]_vars

\* a paused tick that saw a whole period go by and did not step
C19_Witness ==
    /\ op = "tick" /\ timer_state = "Paused" /\ ~tick_some
    /\ timer.amount > 0 /\ elapsed >= timer.time_left /\ generation > 0

\* C20: on a timer whose period is zero every unpaused update returns Finished,
\* whatever the elapsed time, its tick steps the automaton by one generation,
\* and time_left stays 0.
C20_ZeroPeriodEveryTick ==
    [][(op' = "tick" /\ timer.amount = 0 /\ ~timer.paused) =>
          /\ timer_state' = "Finished"
          /\ tick_some'
          /\ generation' = generation + 1
          /\ timer'.time_left = 0
          /\ timer'.amount = 0]_vars

\* two ticks in a row stepped on a timer that a rate-increase key floored at
\* zero, the last one with no time elapsed
C20_Witness ==
    /\ op = "tick" /\ floored /\ timer.amount = 0 /\ ~timer.paused
    /\ timer_state = "Finished" /\ elapsed = 0 /\ n_finished = 2
    /\ generation = 2

\* C17: while the timer is paused, checked_update leaves time_left alone and
\* reports Paused, as update does.
C17_CheckedUpdateHonoursPause ==
    [][(op' = "checked_update" /\ timer.paused) =>
          /\ timer'.time_left = timer.time_left
          /\ timer_state' = "Paused"]_vars

\* C18: a left-button press seen by default_key_actions toggles the cell under
\* the cursor: the automaton's cells change at that one position.
C18_LeftButtonTogglesCell ==
    [][(op' \in Keys /\ mouse' # <<>>) => cells' # cells]_vars

\* the rectangle draws of the last frame, in order
Rects == SelectSeq(frame, LAMBDA c : c[1] = "rect")

\* the number of rectangle draws of the last frame at position <<x, y>>
DrawsAt(x, y) == Cardinality({i \in 1..Len(Rects) : Rects[i][2] = x /\ Rects[i][3] = y})

\* C14: a sparse frame over the bounding box (w,h) has exactly w*h rectangle
\* draws, one per position of the box and none outside it; a populated position
\* has its cell's render_cell colour, an unpopulated one the default colour.
C14_SparseFrame ==
    (variant = "sparse" /\ op = "display_grid") =>
        /\ Len(Rects) = grid_size[1] * grid_size[2]
        /\ \A i \in 1..Len(Rects) :
              /\ Rects[i][2] \in 0..(grid_size[1] - 1)
              /\ Rects[i][3] \in 0..(grid_size[2] - 1)
              /\ Rects[i][4] = IF <<Rects[i][2], Rects[i][3]>> \in DOMAIN cells
                               THEN render_cell(cells[<<Rects[i][2], Rects[i][3]>>])
                               ELSE default_color
        /\ \A x \in 0..(grid_size[1] - 1), y \in 0..(grid_size[2] - 1) : DrawsAt(x, y) = 1

\* box (3,3), one cell at (1,1) and one outside the box: 9 draws, 8 of them in
\* the default colour and one in the cell's colour
C14_Witness ==
    /\ variant = "sparse" /\ op = "display_grid"
    /\ grid_size = <<3, 3>> /\ DOMAIN cells = {<<1, 1>>, <<3, 1>>}
    /\ default_color = "BLACK"
    /\ Len(Rects) = 9
    /\ Cardinality({i \in 1..Len(Rects) : Rects[i][4] = "BLACK"}) = 8
    /\ Cardinality({i \in 1..Len(Rects) : Rects[i][4] = "WHITE"}) = 1

\* C15: a dense frame over a grid of cols x rows cells (N x N in particular) has
\* exactly cols * rows rectangle draws, one per grid position, whatever the cells.
C15_DenseFrame ==
    (variant = "dense" /\ op = "display_grid") =>
        /\ Len(Rects) = grid_size[1] * grid_size[2]
        /\ \A x \in 0..(grid_size[1] - 1), y \in 0..(grid_size[2] - 1) : DrawsAt(x, y) = 1

\* a 3x3 grid with live and dead cells drawn with 9 rectangles
C15_Witness ==
    /\ variant = "dense" /\ op = "display_grid" /\ grid_size = <<3, 3>>
    /\ Len(Rects) = 9
    /\ cells[1][1] = "dead" /\ cells[2][2] = "alive" /\ cells[3][1] = "dead"

\* C16: every frame of either variant clears the background exactly once, and
\* before any of its rectangles is drawn.
C16_ClearFirst ==
    (op = "display_grid") =>
        /\ Len(frame) >= 1
        /\ frame[1] = <<"clear", "GRAY">>
        /\ \A i \in 2..Len(frame) : frame[i][1] = "rect"

C16_Witness ==
    /\ op = "display_grid" /\ variant = "sparse" /\ grid_size = <<2, 3>>
    /\ Len(frame) = 7 /\ frame[1][1] = "clear" /\ frame[7][1] = "rect"

\* the configuration new() was given is invalid: no cell on an axis, or the
\* margins alone exceed the window on an axis
InvalidGeometry ==
    \E a \in 1..2 :
        \/ grid_size[a] = 0
        \/ (grid_size[a] + 1) * cell_margin > window_size[a]

\* x is a number (neither NaN nor an infinity) and x >= 0
FiniteNonNeg(x) == x.c = "fin" /\ x.m >= 0

\* C11: construction with an invalid geometry is rejected, so no frontend
\* exists for it, and every frontend that exists has a finite, non-negative
\* cell size and center translation.
C11_InvalidGeometryRejected ==
    /\ InvalidGeometry => pc # "api"
    /\ pc = "api" =>
          /\ FiniteNonNeg(rect_size)
          /\ FiniteNonNeg(center_translation[1])
          /\ FiniteNonNeg(center_translation[2])

\* the exact p >= 0 and p + size <= w for f32 p, size and an integer w
Within(p, size, w) ==
    /\ p.c = "fin" /\ size.c = "fin"
    /\ p.m >= 0
    /\ LET k == Max(p.k, size.k) IN Num(p, k) + Num(size, k) <= w * Pow2(k)

\* C12: for cols, rows >= 1, margin >= 0 and a window larger than
\* (cells + 1) * margin on both axes, center_translation >= 0 on both axes and
\* every rectangle display_grid draws lies within the window.
C12_GridFitsWindow ==
    (pc = "api" /\ \A a \in 1..2 : /\ grid_size[a] >= 1
                                    /\ window_size[a] > (grid_size[a] + 1) * cell_margin) =>
        /\ FiniteNonNeg(center_translation[1])
        /\ FiniteNonNeg(center_translation[2])
        /\ \A i \in 1..Len(Rects) :
              /\ Within(Rects[i][5][1], rect_size, window_size[1])
              /\ Within(Rects[i][5][2], rect_size, window_size[2])

\* the frontend was made for the grid (2,1), margin 0 and window (100,50)
C13_Case ==
    /\ pc = "api" /\ op = "new"
    /\ grid_size = <<2, 1>> /\ cell_margin = 0 /\ window_size = <<100, 50>>

\* C13 as stated: for grid (2,1), margin 0, window (100,50) the cell side is 25
\* and the wider axis has a positive center translation.
C13_Original ==
    C13_Case =>
        /\ rect_size = F32(25)
        /\ center_translation[1].m > 0

\* C13 amended: for grid (2,1), margin 0, window (100,50) the cell side is 50
\* and the translation is 0 on both axes (the grid fills the window); for grid
\* (1,1) in the same window the cell side is 50 too and the wider axis has the
\* translation 25, the free space on either side of the grid.
C13_CellSideFifty ==
    /\ C13_Case =>
          /\ rect_size = F32(50)
          /\ center_translation = <<F32(0), F32(0)>>
    /\ (pc = "api" /\ grid_size = <<1, 1>> /\ cell_margin = 0
                   /\ window_size = <<100, 50>>) =>
          /\ rect_size = F32(50)
          /\ center_translation = <<F32(25), F32(0)>>
          /\ fadd(fadd(center_translation[1], rect_size), center_translation[1])
                = F32(window_size[1])

C13_Witness ==
    C13_Case /\ rect_size = F32(50) /\ center_translation[1] = F32(0)

\* C21: a rate-change key replaces the timer by a freshly constructed one: the
\* new timer is unpaused whatever the old one was, its time_left is its period
\* and last_checked is the clock reading of the press; a tick that follows on
\* that timer is never answered Paused.
C21_RateChangeUnpauses ==
    [][/\ (op' \in {"KEY_MINUS", "KEY_EQUAL"}) =>
              (/\ ~timer'.paused
               /\ timer'.time_left = timer'.amount
               /\ resumed' = timer.paused)
       /\ (op' = "tick" /\ op \in {"KEY_MINUS", "KEY_EQUAL"}) =>
              (timer_state' \in {"Ongoing", "Finished"})]_vars

\* the tick right after a rate key that replaced a paused timer stepped the
\* automaton
C21_Witness ==
    /\ op = "tick" /\ resumed /\ fresh /\ ~timer.paused
    /\ timer_state = "Finished" /\ tick_some /\ generation > 0
    /\ timer.amount > 0

\* C22: for a timer with a period > 0 that was never paused and none of whose
\* updates saw elapsed > period, the elapsed time accounted since its creation
\* is (number of Finished results) * period + (period - time_left).
C22_DriftFree ==
    (fresh /\ in_period /\ timer.amount > 0) =>
        total = n_finished * timer.amount + (timer.amount - timer.time_left)

\* a period boundary was crossed with an overshoot, which was carried over
C22_Witness ==
    /\ op = "tick" /\ fresh /\ in_period /\ ~aligned
    /\ timer.amount > 1 /\ n_finished >= 1
    /\ 0 < timer.time_left /\ timer.time_left < timer.amount
    /\ total = n_finished * timer.amount + (timer.amount - timer.time_left)

\* C23: if from some point on the timer stays unpaused and no rate key replaces
\* it, and ticks with a positive elapsed time happen again and again, then ticks
\* that see Finished and step the automaton happen again and again; every
\* Ongoing update with a positive elapsed time makes time_left strictly smaller.
C23_Progress ==
    /\ [][(op' = "tick" /\ timer_state' = "Ongoing" /\ elapsed' > 0) =>
              timer'.time_left < timer.time_left]_vars
    /\ (/\ <>[](~timer.paused /\ op \notin {"KEY_MINUS", "KEY_EQUAL"})
        /\ []<>(op = "tick" /\ elapsed > 0))
          => []<>(op = "tick" /\ timer_state = "Finished" /\ tick_some)

\* a tick saw Finished with less than a period elapsed: earlier Ongoing updates
\* had brought time_left down
C23_Witness ==
    /\ op = "tick" /\ timer_state = "Finished" /\ tick_some /\ ~timer.paused
    /\ timer.amount > 1 /\ 0 < elapsed /\ elapsed < timer.amount
    /\ timer.time_left < timer.amount

====
